---- MODULE Spec2Model ----
(***************************************************************************)
(* Multi-SSC monitor: the Monitor Cycle of main.py (load, scrape, filter,  *)
(* deliver, save, sleep) and the relay pool of proxy_pool.py with its      *)
(* client html_scraper.py.  main.py never imports proxy_pool, so the two   *)
(* halves share no state: Spec runs the monitor, SpecPool runs the pool.   *)
(***************************************************************************)
EXTENDS Integers, Sequences, FiniteSets, TLC

(* ------------------------------ bounds -------------------------------- *)
\* Identities the primary / secondary source publishes over a run.
MaxMain == 4
MaxNr == 1
\* Most notices a source lists at once (API page size=50 inside the lookback).
Window == 2
\* The slice of main.py:346-347, [-500:], scaled down.
SEEN_LIMIT == 3
\* Relay addresses the candidate feeds can name, and the feeds.
NumProxies == 3
NumFeeds == 2
\* Concurrent callers of the pool.
NumThreads == 2
\* The clock stops here.
MaxTime == 2
\* proxy_pool.py: _REFRESH_EVERY, _MAX_TEST, _MAX_GOOD and html_scraper.py:
\* max_tries, scaled down.
REFRESH_EVERY == 1
MAX_TEST == 3
MAX_GOOD == 2
MAX_TRIES == 2
\* Rows one call of an extraction function is given.
MaxRows == 3
\* datetime.utcnow().date(), as a day number.
Today == 20
\* main.py and html_scraper.py: LOOKBACK_DAYS.
LOOKBACK_DAYS == 12
\* title[:80] of the identity, and the len(title) < 10 of scrape_nr, scaled down.
TITLE_CUT == 2
NR_MIN_TITLE == 3

VARIABLES
    file,           \* STATE_FILE: [status, main, nr]
    pc,             \* position of the __main__ loop / monitor_cycle
    sent_main,      \* monitor_cycle's set sent_main, kept in insertion order
    sent_nr,        \* monitor_cycle's set sent_nr, kept in insertion order
    main_notices,   \* result of scrape_main()
    nr_notices,     \* result of scrape_nr()
    new,            \* main_new + nr_new still to be sent: <<src, id>>
    up,             \* what each source lists now: [main |-> [lo, hi, dup],
                    \*   nr |-> ...]
    api_resp,       \* history: what the API answered to the scrape_main
                    \*   that has just returned
    strategies,     \* history: the strategies that scrape_main ran, in order
    cyc,            \* history: send_telegram calls of this cycle: <<src, id, ok>>
    past,           \* history: identities delivered in earlier cycles, per
                    \*   source, since the last state loss or failed cycle
    prev_failed,    \* history: <<src, id>> whose delivery failed (and never
                    \*   succeeded) in the last cycle, kept until this cycle
                    \*   has found its new notices
    steady,         \* history: the last cycle fetched all that is listed, sent
                    \*   all of it and saved, and nothing changed since
    evicted,        \* history: identities the last save cut off
    last_cycle,     \* history: how the cycle before this turn of the loop ended
    failed,         \* history: the sources whose pipeline failed in this cycle
    \* ---- proxy_pool.py and its callers ----
    lock,           \* _lock: 0 when free, else the thread holding it
    good,           \* _good
    bad,            \* _bad
    last_refresh,   \* _last_refresh
    now,            \* time.time()
    tpc,            \* where each thread stands
    caller,         \* "user", or "fetch" inside html_scraper.scrape_main_html
    arg,            \* the proxy a thread is banning or fetching through
    ret,            \* what get() last returned to the thread (0: None)
    tries,          \* _fetch_html: turns of the loop begun
    res,            \* what scrape_main_html is returning ("none": not yet)
    after_ban,      \* history: the proxy the thread banned by its last call,
                    \*   0 once a rebuild has started a new generation
    rebuilt_empty,  \* history: the get() in progress rebuilt the pool and no
                    \*   candidate passed the check
    rebuild,        \* history: what the rebuild of the get() in progress did
    \* ---- one call of an extraction function ----
    xpc,            \* "idle", or "done" when the function has returned
    path,           \* the function that ran: "api", "browser", "static", "nr"
    rows,           \* the records / rows / lines it was given: [date, title]
    fault,          \* what went wrong outside the row loop ("none": nothing)
    outcome         \* what it left: [out, none, raised, inspected, drv]

mvars == <<file, pc, sent_main, sent_nr, main_notices, nr_notices, new, up,
           api_resp, strategies, cyc, past, prev_failed, steady, evicted,
           last_cycle, failed>>

pvars == <<lock, good, bad, last_refresh, now, tpc, caller, arg, ret, tries,
           res, after_ban, rebuilt_empty,
                   rebuild>>

xvars == <<xpc, path, rows, fault, outcome>>

vars == <<mvars, pvars, xvars>>

\* the locals of monitor_cycle and the history of the cycle in progress
locals == <<sent_main, sent_nr, main_notices, nr_notices, new, api_resp,
            strategies, cyc, failed>>

(* ------------------------------ helpers ------------------------------- *)
Range(s) == {s[i] : i \in 1..Len(s)}

Min(a, b) == IF a < b THEN a ELSE b

\* list[-n:]
LastN(s, n) == IF Len(s) <= n THEN s ELSE SubSeq(s, Len(s) - n + 1, Len(s))

\* list[:n]
FirstN(s, n) == SubSeq(s, 1, Min(n, Len(s)))

\* set.add(x) on a set kept in insertion order
SetAdd(s, x) == IF x \in Range(s) THEN s ELSE Append(s, x)

\* set(list): the elements of the list, inserted in list order
RECURSIVE SetOf(_)
SetOf(l) == IF l = <<>> THEN <<>>
            ELSE SetAdd(SetOf(SubSeq(l, 1, Len(l) - 1)), l[Len(l)])

\* list(set): Python leaves a set's iteration order unspecified (hash order),
\* so every enumeration of the elements is an outcome.
ListOf(s) ==
    {p \in [1..Len(s) -> Range(s)] : \A i, j \in 1..Len(s) : i # j => p[i] # p[j]}

\* [n for n in notices if n["id"] not in sent]
RECURSIVE NotIn(_, _)
NotIn(notices, sent) ==
    IF notices = <<>> THEN <<>>
    ELSE IF Head(notices) \in Range(sent) THEN NotIn(Tail(notices), sent)
    ELSE <<Head(notices)>> \o NotIn(Tail(notices), sent)

\* [<<src, id>> for each id of ids]
Tagged(src, ids) == [i \in 1..Len(ids) |-> <<src, ids[i]>>]

(* --------------------------- the two sources -------------------------- *)
Sources == {"main", "nr"}
MaxId(src) == IF src = "main" THEN MaxMain ELSE MaxNr

\* The notices a source lists, newest first (sort=createdOn,desc), already cut
\* at the lookback horizon.  The identity is made of the date and the first 80
\* characters of the title, so two rows can carry the same one: with dup the
\* newest notice stands in two rows.
Listing(w) ==
    LET once == [i \in 1..(w.hi - w.lo + 1) |-> w.hi + 1 - i]
    IN  IF w.dup /\ once # <<>> THEN <<Head(once)>> \o once ELSE once

\* past, without the identities a source can no longer list
Listable(p, u) == [src \in Sources |-> {i \in p[src] : i >= u[src].lo}]

\* Whether a new notice can stand in two rows; only the primary listing is
\* given such rows.
Twice(src) == IF src = "main" THEN BOOLEAN ELSE {FALSE}

\* The sources change between two cycles.  A change during a cycle reaches the
\* cycle exactly as the same change before it (the source not yet fetched) or
\* after it (the source already fetched), so only the sleep is interleaved.
\* A new notice appears; the oldest leaves the listing when it is full.
Publish(src) ==
    /\ UNCHANGED <<pvars, xvars>>
    /\ pc = "sleep"
    /\ up[src].hi < MaxId(src)
    /\ \E twice \in Twice(src) :
          up' = [up EXCEPT ![src] =
                   [lo |-> IF up[src].hi + 1 - up[src].lo + 1 > Window
                           THEN up[src].lo + 1 ELSE up[src].lo,
                    hi |-> up[src].hi + 1,
                    dup |-> twice]]
    /\ past' = Listable(past, up')
    /\ steady' = FALSE
    /\ UNCHANGED <<file, pc, locals, prev_failed, evicted, last_cycle>>

\* The oldest listed notice falls behind the lookback horizon.
Expire(src) ==
    /\ UNCHANGED <<pvars, xvars>>
    /\ pc = "sleep"
    /\ up[src].lo <= up[src].hi
    /\ up' = [up EXCEPT ![src].lo = up[src].lo + 1,
                         ![src].dup = up[src].dup /\ up[src].lo < up[src].hi]
    /\ past' = Listable(past, up')
    /\ steady' = FALSE
    /\ UNCHANGED <<file, pc, locals, prev_failed, evicted, last_cycle>>

(* ------------------------------ state file ---------------------------- *)
EmptyState == [dict |-> TRUE, main |-> <<>>, nr |-> <<>>]

\* load_state: what json.load makes of the file, or the default when the file
\* is absent or json.load raises.  Nothing looks at the shape of the decoded
\* value: a file that holds valid JSON other than an object of lists (for
\* instance [] or null, status "wrong_shape") is returned as it is.
load_state(f) ==
    IF f.status = "ok" THEN [dict |-> TRUE, main |-> f.main, nr |-> f.nr]
    ELSE IF f.status = "wrong_shape"
    THEN [dict |-> FALSE, main |-> <<>>, nr |-> <<>>]
    ELSE EmptyState

\* The state file is deleted or damaged from outside the process.  A cycle in
\* progress has read it already and writes it anew, so only a loss during the
\* sleep is seen.
LoseFile ==
    /\ UNCHANGED <<pvars, xvars>>
    /\ pc = "sleep"
    /\ file.status = "ok"
    /\ \E st \in {"absent", "corrupt", "wrong_shape"} :
          file' = [status |-> st, main |-> <<>>, nr |-> <<>>]
    /\ past' = [src \in Sources |-> {}]
    /\ steady' = FALSE
    /\ UNCHANGED <<pc, up, locals, prev_failed, evicted, last_cycle>>

(* ------------------------------ scrapers ------------------------------ *)
\* What the request of scrape_main_api can come back with.
ApiResponses == {"ok", "net_error", "timeout", "http_error", "bad_body",
                 "no_content"}

\* The answers on which scrape_main_api raises into its outer except and
\* returns None: requests.get raises (net_error, timeout), raise_for_status
\* raises (http_error), resp.json() raises or the decoded value has no get
\* (bad_body).  A JSON object without "content" (no_content) raises nothing.
ApiRaises == {"net_error", "timeout", "http_error", "bad_body"}

\* scrape_main_api: None, or the notices of data.get("content", []) down to
\* the first one behind the cutoff.
scrape_main_api(resp, listing) ==
    IF resp \in ApiRaises THEN [none |-> TRUE, out |-> <<>>]
    ELSE IF resp = "no_content" THEN [none |-> FALSE, out |-> <<>>]
    ELSE [none |-> FALSE, out |-> listing]

\* (changed) a browser scraper that hands back rows although it failed
HtmlKeepsRows(html_ok, listing) == listing

\* main.py scrape_main_html: the rows of the rendered page, or [] on any error
scrape_main_html(html_ok, listing) == IF html_ok THEN listing ELSE <<>>

\* scrape_main: the notices returned and the strategies run, in order.  Both
\* browser scrapers answer [] when anything in them fails, and what escapes
\* them (drv.quit() raising in the finally) is caught by monitor_cycle, which
\* sets the source's list to [].
scrape_main(resp, html_ok, listing) ==
    LET result == scrape_main_api(resp, listing) IN
    IF ~result.none
    THEN [out |-> result.out, ran |-> <<"api">>]
    ELSE [out |-> scrape_main_html(html_ok, listing), ran |-> <<"api", "html">>]

\* scrape_nr: the lines of the page, or [] when the browser fails
scrape_nr(page_ok, listing) == IF page_ok THEN listing ELSE <<>>

(* ---------------------------- __main__ loop --------------------------- *)
\* The history kept when a cycle ends, however it ends.
Account(how, cut) ==
    /\ past' = IF how = "completed"
               THEN Listable(
                      [src \in Sources |->
                          past[src] \cup {cyc[i][2] : i \in
                              {j \in 1..Len(cyc) : cyc[j][1] = src /\ cyc[j][3]}}],
                      up)
               ELSE [src \in Sources |-> {}]
    /\ prev_failed' = {<<cyc[i][1], cyc[i][2]>> : i \in
                          {j \in 1..Len(cyc) : ~cyc[j][3]}}
                       \ {<<cyc[i][1], cyc[i][2]>> : i \in
                          {j \in 1..Len(cyc) : cyc[j][3]}}
    /\ steady' = /\ how = "completed"
                 /\ \A i \in 1..Len(cyc) : cyc[i][3]
                 /\ main_notices = Listing(up.main)
                 /\ nr_notices = Listing(up.nr)
    /\ evicted' = cut
    /\ last_cycle' = how

\* monitor_cycle has returned or raised: its locals are gone
Return ==
    /\ sent_main' = <<>>
    /\ sent_nr' = <<>>
    /\ main_notices' = <<>>
    /\ nr_notices' = <<>>
    /\ new' = <<>>
    /\ api_resp' = "none"
    /\ strategies' = <<>>
    /\ cyc' = <<>>
    /\ failed' = {}

\* (changed) the while loop without its try: the exception ends the process
MainLoopNoExcept == pc' = "exit"

\* except Exception in the while loop: log, fall through to the sleep
MainLoopExcept == pc' = "sleep"

\* (changed) the list saved whole
KeepAll(listed) == listed

\* state[src] = list(sent)[-500:], given the enumeration list() produced
Keep(listed) == LastN(listed, SEEN_LIMIT)

\* monitor_cycle, lines 312-314; ensure_data_dir may raise, and so do
\* state.get and set() on a decoded value of another shape
Load ==
    /\ UNCHANGED <<pvars, xvars>>
    /\ pc = "load"
    /\ \E dir_ok \in BOOLEAN :
          IF dir_ok /\ load_state(file).dict
          THEN /\ sent_main' = SetOf(load_state(file).main)
               /\ sent_nr' = SetOf(load_state(file).nr)
               /\ pc' = "scrape_main"
               /\ evicted' = 0
               /\ last_cycle' = "none"
               /\ UNCHANGED <<main_notices, nr_notices, new, api_resp,
                              strategies, cyc, past, prev_failed, steady,
                              failed>>
          ELSE /\ MainLoopExcept
               /\ Account(IF dir_ok THEN "crashed" ELSE "no_dir", 0)
               /\ Return
    /\ UNCHANGED <<file, up>>

\* monitor_cycle, lines 317-321
ScrapeMain ==
    /\ UNCHANGED <<pvars, xvars>>
    /\ pc = "scrape_main"
    /\ \E resp \in ApiResponses, html_ok \in BOOLEAN :
          LET r == scrape_main(resp, html_ok, Listing(up.main)) IN
          /\ main_notices' = r.out
          /\ strategies' = r.ran
          /\ api_resp' = resp
          /\ failed' = IF "html" \in Range(r.ran) /\ ~html_ok
                       THEN {"main"} ELSE {}
    /\ pc' = "scrape_nr"
    /\ UNCHANGED <<file, up, sent_main, sent_nr, nr_notices, new, cyc, past,
                   prev_failed, steady, evicted, last_cycle>>

\* monitor_cycle, lines 323-331
ScrapeNr ==
    /\ UNCHANGED <<pvars, xvars>>
    /\ pc = "scrape_nr"
    /\ \E page_ok \in BOOLEAN :
          LET r == scrape_nr(page_ok, Listing(up.nr)) IN
          /\ nr_notices' = r
          /\ failed' = IF page_ok THEN failed ELSE failed \cup {"nr"}
          /\ new' = Tagged("main", NotIn(main_notices, sent_main))
                    \o Tagged("nr", NotIn(r, sent_nr))
    /\ pc' = "deliver"
    /\ api_resp' = "none"
    /\ strategies' = <<>>
    /\ prev_failed' = {}
    /\ UNCHANGED <<file, up, sent_main, sent_nr, main_notices, cyc, past,
                   steady, evicted, last_cycle>>

\* one turn of the loop of lines 337-343; send_telegram answers ok
Deliver ==
    /\ UNCHANGED <<pvars, xvars>>
    /\ pc = "deliver"
    /\ new # <<>>
    /\ \E ok \in BOOLEAN :
          LET n == Head(new) IN
          /\ cyc' = Append(cyc, <<n[1], n[2], ok>>)
          /\ sent_main' = IF ok /\ n[1] = "main" THEN SetAdd(sent_main, n[2])
                          ELSE sent_main
          /\ sent_nr' = IF ok /\ n[1] = "nr" THEN SetAdd(sent_nr, n[2])
                        ELSE sent_nr
    /\ new' = Tail(new)
    /\ UNCHANGED <<file, up, pc, main_notices, nr_notices, api_resp,
                   strategies, past, prev_failed, steady, evicted, last_cycle,
                   failed>>

\* monitor_cycle, lines 346-348: open(STATE_FILE, "w") may raise and leave the
\* file as it was; json.dump may raise after open() has truncated it
Save ==
    /\ UNCHANGED <<pvars, xvars>>
    /\ pc = "deliver"
    /\ new = <<>>
    /\ \E how \in {"ok", "open_error", "write_error"} :
          \/ /\ how = "ok"
             /\ \E lm \in ListOf(sent_main), ln \in ListOf(sent_nr) :
                   file' = [status |-> "ok", main |-> Keep(lm), nr |-> Keep(ln)]
             /\ pc' = "sleep"
             /\ Account("completed", Len(sent_main) - Len(file'.main)
                                     + Len(sent_nr) - Len(file'.nr))
          \/ /\ how = "open_error"
             /\ MainLoopExcept
             /\ Account("crashed", 0)
             /\ UNCHANGED file
          \/ /\ how = "write_error"
             /\ MainLoopExcept
             /\ Account("crashed", 0)
             /\ file' = [status |-> "corrupt", main |-> <<>>, nr |-> <<>>]
    /\ Return
    /\ UNCHANGED up

\* time.sleep(CHECK_INTERVAL) returns and the while loop turns
Sleep ==
    /\ UNCHANGED <<pvars, xvars>>
    /\ pc = "sleep"
    /\ pc' = "load"
    /\ UNCHANGED <<file, up, locals, past, prev_failed, steady, evicted,
                   last_cycle>>

\* The process is stopped between two cycles and started again: __main__
\* enters its loop afresh.  Nothing of a cycle is kept in memory once
\* monitor_cycle has returned, so the new process starts where the sleep of
\* the old one would have ended.
Restart ==
    /\ UNCHANGED <<pvars, xvars>>
    /\ pc \in {"sleep", "exit"}
    /\ pc' = "load"
    /\ UNCHANGED <<file, up, locals, past, prev_failed, steady, evicted,
                   last_cycle>>

MInit ==
    /\ file = [status |-> "absent", main |-> <<>>, nr |-> <<>>]
    /\ pc = "load"
    /\ sent_main = <<>>
    /\ sent_nr = <<>>
    /\ main_notices = <<>>
    /\ nr_notices = <<>>
    /\ new = <<>>
    /\ up = [src \in Sources |-> [lo |-> 1, hi |-> 0, dup |-> FALSE]]
    /\ api_resp = "none"
    /\ strategies = <<>>
    /\ cyc = <<>>
    /\ failed = {}
    /\ past = [src \in Sources |-> {}]
    /\ prev_failed = {}
    /\ steady = FALSE
    /\ evicted = 0
    /\ last_cycle = "none"

Cycle == Load \/ ScrapeMain \/ ScrapeNr \/ Deliver \/ Save \/ Sleep

MNext ==
    \/ Cycle
    \/ Restart
    \/ LoseFile
    \/ \E src \in Sources : Publish(src)
    \/ \E src \in Sources : Expire(src)

(* ============================ proxy_pool.py =========================== *)
Proxies == 1..NumProxies
Feeds == 1..NumFeeds
Threads == 1..NumThreads

\* _grab: the union of what the feeds answered ({} for a feed that failed or
\* listed nothing)
RECURSIVE _grab(_, _)
_grab(answers, n) == IF n = 0 THEN {} ELSE answers[n] \cup _grab(answers, n - 1)

\* the loop of _refresh, lines 93-101: the candidates that pass _is_https_ok,
\* in order, until _MAX_GOOD are found
RECURSIVE Verify(_, _, _)
Verify(cand, live, found) ==
    IF cand = <<>> \/ Len(found) >= MAX_GOOD THEN found
    ELSE Verify(Tail(cand), live,
                IF Head(cand) \in live THEN Append(found, Head(cand)) ELSE found)

\* list.remove(x): the first occurrence goes
RECURSIVE Remove(_, _)
Remove(l, x) == IF l = <<>> THEN <<>>
                ELSE IF Head(l) = x THEN Tail(l)
                ELSE <<Head(l)>> \o Remove(Tail(l), x)

\* (changed) _grab that collects the lines in a list: an address that two
\* feeds name is listed twice
OrdersRepeating(S) == [1..Cardinality(S) -> S]

\* Every enumeration list(found) can produce for a set of addresses.
Orders(S) ==
    {p \in [1..Cardinality(S) -> S] :
        \A i, j \in 1..Cardinality(S) : i # j => p[i] # p[j]}

\* (changed) a pool that is rebuilt only when it is empty
NeedsRefreshEmpty == good = <<>>

\* _refresh_if_needed's condition
NeedsRefresh == good = <<>> \/ now - last_refresh > REFRESH_EVERY

\* ---- a thread calls the pool ----
CallGet(t) ==
    /\ UNCHANGED <<mvars, xvars>>
    /\ tpc[t] = "idle"
    /\ tpc' = [tpc EXCEPT ![t] = "get_lock"]
    /\ UNCHANGED <<lock, good, bad, last_refresh, now, caller, arg, ret, tries,
                   res, after_ban, rebuilt_empty,
                   rebuild>>

CallBan(t, x) ==
    /\ UNCHANGED <<mvars, xvars>>
    /\ tpc[t] = "idle"
    /\ tpc' = [tpc EXCEPT ![t] = "ban_lock"]
    /\ arg' = [arg EXCEPT ![t] = x]
    /\ after_ban' = [after_ban EXCEPT ![t] = 0]
    /\ UNCHANGED <<lock, good, bad, last_refresh, now, caller, ret, tries, res,
                   rebuilt_empty,
                   rebuild>>

\* ---- get, lines 115-118 ----
\* with _lock:
GetLock(t) ==
    /\ UNCHANGED <<mvars, xvars>>
    /\ tpc[t] = "get_lock"
    /\ lock = 0
    /\ lock' = t
    /\ tpc' = [tpc EXCEPT ![t] = "get_check"]
    /\ UNCHANGED <<good, bad, last_refresh, now, caller, arg, ret, tries, res,
                   after_ban, rebuilt_empty,
                   rebuild>>

\* _refresh_if_needed, lines 109-111
RefreshIfNeeded(t) ==
    /\ UNCHANGED <<mvars, xvars>>
    /\ tpc[t] = "get_check"
    /\ tpc' = [tpc EXCEPT ![t] = IF NeedsRefresh THEN "refresh" ELSE "get_choose"]
    /\ UNCHANGED <<lock, good, bad, last_refresh, now, caller, arg, ret, tries,
                   res, after_ban, rebuilt_empty,
                   rebuild>>

\* _refresh, lines 86-87: a new generation begins
RefreshBegin(t) ==
    /\ UNCHANGED <<mvars, xvars>>
    /\ tpc[t] = "refresh"
    /\ last_refresh' = now
    /\ bad' = {}
    /\ after_ban' = [u \in Threads |-> 0]
    /\ tpc' = [tpc EXCEPT ![t] = "refresh_test"]
    /\ UNCHANGED <<lock, good, now, caller, arg, ret, tries, res,
                   rebuilt_empty,
                   rebuild>>

\* The feeds filtered by country (PROXY_SOURCES, lines 15-16); the others
\* are the global and alternative ones (lines 19-24).
Narrow == {1}

\* the loop of _grab, lines 44-67: the feeds it requests, whatever the
\* earlier ones answered
RECURSIVE Asked(_, _)
Asked(answers, n) == IF n = 0 THEN {} ELSE Asked(answers, n - 1) \cup {n}

\* No rebuild in progress.
NoRebuild == [done |-> FALSE, narrow |-> FALSE, broad |-> FALSE, scratch |-> TRUE]

\* _refresh, lines 89-105: the feeds answer, the candidates are listed, cut
\* to _MAX_TEST and verified, and _good is replaced
RefreshEnd(t) ==
    /\ UNCHANGED <<mvars, xvars>>
    /\ tpc[t] = "refresh_test"
    /\ \E answers \in [Feeds -> SUBSET Proxies], live \in SUBSET Proxies :
          \E listed \in Orders(_grab(answers, NumFeeds)) :
             LET cand == FirstN(listed, MAX_TEST) IN
             /\ good' = Verify(cand, live, <<>>)
             /\ rebuilt_empty' =
                   [rebuilt_empty EXCEPT ![t] = (Range(cand) \cap live = {})]
             /\ rebuild' =
                   [done    |-> TRUE,
                    narrow  |-> \E f \in Narrow : answers[f] # {},
                    broad   |-> Asked(answers, NumFeeds) \ Narrow # {},
                    scratch |-> Range(good') \subseteq Range(cand) \cap live]
    /\ tpc' = [tpc EXCEPT ![t] = "get_choose"]
    /\ UNCHANGED <<lock, bad, last_refresh, now, caller, arg, ret, tries, res,
                   after_ban>>

\* line 118: random.choice(_good) if _good else None
Choice(l) == IF l # <<>> THEN Range(l) ELSE {0}

GetChoose(t) ==
    /\ UNCHANGED <<mvars, xvars>>
    /\ tpc[t] = "get_choose"
    /\ \E x \in Choice(good) : ret' = [ret EXCEPT ![t] = x]
    /\ tpc' = [tpc EXCEPT ![t] = "get_unlock"]
    /\ UNCHANGED <<lock, good, bad, last_refresh, now, caller, arg, tries, res,
                   after_ban, rebuilt_empty,
                   rebuild>>

\* the with block of get ends and get returns: to _fetch_html, which keeps
\* the proxy, or to a caller of whom no more is known
GetUnlock(t) ==
    /\ UNCHANGED <<mvars, xvars>>
    /\ tpc[t] = "get_unlock"
    /\ lock' = 0
    /\ tpc' = [tpc EXCEPT ![t] = IF caller[t] = "fetch" THEN "fh_got" ELSE "idle"]
    /\ ret' = [ret EXCEPT ![t] = IF caller[t] = "fetch" THEN ret[t] ELSE 0]
    /\ after_ban' = [after_ban EXCEPT ![t] = 0]
    /\ rebuilt_empty' = [rebuilt_empty EXCEPT ![t] = FALSE]
    /\ rebuild' = NoRebuild
    /\ UNCHANGED <<good, bad, last_refresh, now, caller, arg, tries, res>>

\* ---- ban, lines 121-126 ----
\* (changed) ban without its with _lock
BanNoLock(t) ==
    /\ UNCHANGED <<mvars, xvars>>
    /\ tpc[t] = "ban_lock"
    /\ tpc' = [tpc EXCEPT ![t] = "ban_add"]
    /\ UNCHANGED <<lock, good, bad, last_refresh, now, caller, arg, ret, tries,
                   res, after_ban, rebuilt_empty,
                   rebuild>>

\* with _lock:
BanLock(t) ==
    /\ UNCHANGED <<mvars, xvars>>
    /\ tpc[t] = "ban_lock"
    /\ lock = 0
    /\ lock' = t
    /\ tpc' = [tpc EXCEPT ![t] = "ban_add"]
    /\ UNCHANGED <<good, bad, last_refresh, now, caller, arg, ret, tries, res,
                   after_ban, rebuilt_empty,
                   rebuild>>

\* _bad.add(proxy)
BanAdd(t) ==
    /\ UNCHANGED <<mvars, xvars>>
    /\ tpc[t] = "ban_add"
    /\ bad' = bad \cup {arg[t]}
    /\ tpc' = [tpc EXCEPT ![t] = "ban_remove"]
    /\ UNCHANGED <<lock, good, last_refresh, now, caller, arg, ret, tries, res,
                   after_ban, rebuilt_empty,
                   rebuild>>

\* (changed) ban that records the proxy in _bad and leaves _good alone
BanGoodKeep(l, x) == l

\* if proxy in _good: _good.remove(proxy)
BanGood(l, x) == IF x \in Range(l) THEN Remove(l, x) ELSE l

\* lines 124-126, and the with block of ban ends
BanRemove(t) ==
    /\ UNCHANGED <<mvars, xvars>>
    /\ tpc[t] = "ban_remove"
    /\ good' = BanGood(good, arg[t])
    /\ lock' = 0
    /\ after_ban' = [after_ban EXCEPT ![t] = arg[t]]
    /\ arg' = [arg EXCEPT ![t] = 0]
    /\ tpc' = [tpc EXCEPT ![t] = IF caller[t] = "fetch" THEN "fh_loop" ELSE "idle"]
    /\ UNCHANGED <<bad, last_refresh, now, caller, ret, tries, res,
                   rebuilt_empty,
                   rebuild>>

\* ---- html_scraper.py ----
\* scrape_main_html is called
CallScrape(t) ==
    /\ UNCHANGED <<mvars, xvars>>
    /\ tpc[t] = "idle"
    /\ tpc' = [tpc EXCEPT ![t] = "fh_loop"]
    /\ caller' = [caller EXCEPT ![t] = "fetch"]
    /\ after_ban' = [after_ban EXCEPT ![t] = 0]
    /\ UNCHANGED <<lock, good, bad, last_refresh, now, arg, ret, tries, res,
                   rebuilt_empty,
                   rebuild>>

\* (changed) a rotation that goes on as long as relays are handed out
TurnsForever(n) == TRUE

\* for _ in range(max_tries): another turn is left after n turns
MoreTurns(n) == n < MAX_TRIES

\* _fetch_html, line 24-25: the next turn of the loop calls pick_proxy; when
\* the turns are used up _fetch_html returns None, and scrape_main_html logs
\* and returns []
FetchLoop(t) ==
    /\ UNCHANGED <<mvars, xvars>>
    /\ tpc[t] = "fh_loop"
    /\ IF MoreTurns(tries[t])
       THEN /\ tries' = [tries EXCEPT ![t] = tries[t] + 1]
            /\ tpc' = [tpc EXCEPT ![t] = "get_lock"]
            /\ UNCHANGED res
       ELSE /\ res' = [res EXCEPT ![t] = "empty_logged"]
            /\ tpc' = [tpc EXCEPT ![t] = "fh_ret"]
            /\ UNCHANGED tries
    /\ UNCHANGED <<lock, good, bad, last_refresh, now, caller, arg, ret,
                   after_ban, rebuilt_empty,
                   rebuild>>

\* (changed) _fetch_html that requests the page directly when it has no proxy
DirectRequest(t) ==
    /\ \E ok \in BOOLEAN :
          res' = [res EXCEPT ![t] = IF ok THEN "notices" ELSE "empty_logged"]
    /\ tpc' = [tpc EXCEPT ![t] = "fh_ret"]
    /\ UNCHANGED <<arg, ret>>

\* _fetch_html, lines 26-27, and scrape_main_html, lines 80-82: without a
\* proxy the loop breaks, None is returned, the failure is logged and the
\* result is []
NoProxy(t) ==
    /\ res' = [res EXCEPT ![t] = "empty_logged"]
    /\ tpc' = [tpc EXCEPT ![t] = "fh_ret"]
    /\ UNCHANGED <<arg, ret>>

\* _fetch_html, lines 26-35: the request through the proxy answers (the html
\* is returned and parsed) or fails (the proxy is banned)
FetchTry(t) ==
    /\ UNCHANGED <<mvars, xvars>>
    /\ tpc[t] = "fh_got"
    /\ IF ret[t] = 0
       THEN NoProxy(t)
       ELSE /\ ret' = [ret EXCEPT ![t] = 0]
            /\ \E ok \in BOOLEAN :
                  IF ok
                  THEN /\ res' = [res EXCEPT ![t] = "notices"]
                       /\ tpc' = [tpc EXCEPT ![t] = "fh_ret"]
                       /\ UNCHANGED arg
                  ELSE /\ arg' = [arg EXCEPT ![t] = ret[t]]
                       /\ tpc' = [tpc EXCEPT ![t] = "ban_lock"]
                       /\ UNCHANGED res
    /\ UNCHANGED <<lock, good, bad, last_refresh, now, caller, tries,
                   after_ban, rebuilt_empty,
                   rebuild>>

\* scrape_main_html returns
ScrapeReturn(t) ==
    /\ UNCHANGED <<mvars, xvars>>
    /\ tpc[t] = "fh_ret"
    /\ tpc' = [tpc EXCEPT ![t] = "idle"]
    /\ caller' = [caller EXCEPT ![t] = "user"]
    /\ res' = [res EXCEPT ![t] = "none"]
    /\ tries' = [tries EXCEPT ![t] = 0]
    /\ ret' = [ret EXCEPT ![t] = 0]
    /\ after_ban' = [after_ban EXCEPT ![t] = 0]
    /\ UNCHANGED <<lock, good, bad, last_refresh, now, arg, rebuilt_empty,
                   rebuild>>

\* time passes
Tick ==
    /\ UNCHANGED <<mvars, xvars>>
    /\ now < MaxTime
    /\ now' = now + 1
    /\ UNCHANGED <<lock, good, bad, last_refresh, tpc, caller, arg, ret, tries,
                   res, after_ban, rebuilt_empty,
                   rebuild>>

PInit ==
    /\ lock = 0
    /\ good = <<>>
    /\ bad = {}
    /\ last_refresh = 0
    /\ now = 0
    /\ tpc = [t \in Threads |-> "idle"]
    /\ caller = [t \in Threads |-> "user"]
    /\ arg = [t \in Threads |-> 0]
    /\ ret = [t \in Threads |-> 0]
    /\ tries = [t \in Threads |-> 0]
    /\ res = [t \in Threads |-> "none"]
    /\ after_ban = [t \in Threads |-> 0]
    /\ rebuilt_empty = [t \in Threads |-> FALSE]
    /\ rebuild = NoRebuild

PNext ==
    \/ Tick
    \/ \E t \in Threads :
          \/ CallGet(t)
          \/ \E x \in Proxies : CallBan(t, x)
          \/ CallScrape(t)
          \/ GetLock(t)
          \/ RefreshIfNeeded(t)
          \/ RefreshBegin(t)
          \/ RefreshEnd(t)
          \/ GetChoose(t)
          \/ GetUnlock(t)
          \/ BanLock(t)
          \/ BanAdd(t)
          \/ BanRemove(t)
          \/ FetchLoop(t)
          \/ FetchTry(t)
          \/ ScrapeReturn(t)

(* ======================== extraction functions ======================== *)
\* A date that the page shows but no pattern matches, and one that matches
\* the pattern but is no date (fromisoformat / dtparse raise).
NoDate == 0 - 1
BadDate == 0 - 2

\* cutoff = datetime.utcnow().date() - timedelta(days=LOOKBACK_DAYS)
Cutoff == Today - LOOKBACK_DAYS

Dates == {Today, Today - 1, Cutoff, Cutoff - 1, Today - 20, NoDate, BadDate}
Titles == {<<" ">>, <<"a", "b", "c">>, <<" ", "a", "b", "d">>}
Rows == [date : Dates, title : Titles]
Inputs == UNION {[1..n -> Rows] : n \in 0..MaxRows}

\* str.strip()
RECURSIVE LStrip(_)
LStrip(t) == IF t # <<>> /\ Head(t) = " " THEN LStrip(Tail(t)) ELSE t
RECURSIVE RStrip(_)
RStrip(t) == IF t # <<>> /\ t[Len(t)] = " "
             THEN RStrip(SubSeq(t, 1, Len(t) - 1)) ELSE t
Strip(t) == RStrip(LStrip(t))

\* (changed) the comparison that drops the day of the cutoff too
OldInclusive(date) == date <= Cutoff

\* notice_date < cutoff, the test of all four loops
Old(date) == date < Cutoff

\* (changed) an identity cut at another length
uid_short(date, title) == <<"main", date, FirstN(title, TITLE_CUT - 1)>>

\* uid = f"main-{notice_date}-{title[:80]}", as each function writes it
uid_api(date, title) == <<"main", date, FirstN(title, TITLE_CUT)>>
uid_browser(date, title) == <<"main", date, FirstN(title, TITLE_CUT)>>
uid_static(date, title) == <<"main", date, FirstN(title, TITLE_CUT)>>
\* uid = f"nr-{notice_date}-{title[:80]}"
uid_nr(date, title) == <<"nr", date, FirstN(title, TITLE_CUT)>>

Notice(uid, date, title, src) ==
    [id |-> uid, date |-> date, title |-> title, src |-> src]

\* (changed) an old record that is skipped like any other
Continue(rest) == rest

\* break: the records after the old one are never looked at
Break(rest) == <<>>

\* scrape_main_api, lines 141-164: the loop over data["content"]; n counts
\* the records looked at
RECURSIVE ApiLoop(_, _, _)
ApiLoop(items, out, n) ==
    IF items = <<>> THEN [out |-> out, inspected |-> n]
    ELSE LET item == Head(items)
             title == Strip(item.title)
         IN  IF item.date \in {NoDate, BadDate}
             THEN ApiLoop(Tail(items), out, n + 1)
             ELSE IF Old(item.date)
             THEN ApiLoop(Break(Tail(items)), out, n + 1)
             ELSE IF title = <<>>
             THEN ApiLoop(Tail(items), out, n + 1)
             ELSE ApiLoop(Tail(items),
                          Append(out, Notice(uid_api(item.date, title),
                                             item.date, title, "Main SSC")),
                          n + 1)

\* main.py scrape_main_html, lines 194-221: the loop over the div.flex rows
RECURSIVE BrowserLoop(_, _, _)
BrowserLoop(items, out, n) ==
    IF items = <<>> THEN [out |-> out, inspected |-> n]
    ELSE LET row == Head(items)
             title == Strip(row.title)
         IN  IF row.date \in {NoDate, BadDate} \/ Old(row.date) \/ title = <<>>
             THEN BrowserLoop(Tail(items), out, n + 1)
             ELSE BrowserLoop(Tail(items),
                              Append(out, Notice(uid_browser(row.date, title),
                                                 row.date, title, "Main SSC")),
                              n + 1)

\* html_scraper.py _parse_html, lines 45-72; dtparse is outside any try, so
\* a date that is none ends the function with its exception
RECURSIVE _parse_html(_, _, _)
_parse_html(items, out, n) ==
    IF items = <<>> THEN [out |-> out, inspected |-> n, raised |-> FALSE]
    ELSE LET row == Head(items)
             title == Strip(row.title)
         IN  IF row.date = BadDate
             THEN [out |-> <<>>, inspected |-> n + 1, raised |-> TRUE]
             ELSE IF row.date = NoDate \/ Old(row.date) \/ title = <<>>
             THEN _parse_html(Tail(items), out, n + 1)
             ELSE _parse_html(Tail(items),
                              Append(out, Notice(uid_static(row.date, title),
                                                 row.date, title, "Main SSC")),
                              n + 1)

\* scrape_nr, lines 262-290: the loop over the lines of the page
RECURSIVE NrLoop(_, _, _)
NrLoop(items, out, n) ==
    IF items = <<>> THEN [out |-> out, inspected |-> n]
    ELSE LET line == Head(items)
             title == Strip(line.title)
         IN  IF \/ line.date \in {NoDate, BadDate}
                \/ Old(line.date)
                \/ Len(title) < NR_MIN_TITLE
             THEN NrLoop(Tail(items), out, n + 1)
             ELSE NrLoop(Tail(items),
                         Append(out, Notice(uid_nr(line.date, title),
                                            line.date, title, "SSC NR")),
                         n + 1)

\* (changed) a function that leaves its browser as it is
NoFinally(drv) == drv

\* finally: if drv: drv.quit()
Finally(drv) == IF drv # "none" THEN "quit" ELSE "none"

\* What a call leaves: the list returned (none: None was returned, raised: an
\* exception came out instead), the rows looked at and the browser session
\* ("none": never acquired, "open", "quit").
Result(out, none, raised, inspected, drv) ==
    [out |-> out, none |-> none, raised |-> raised, inspected |-> inspected,
     drv |-> drv]

NoResult == Result(<<>>, FALSE, FALSE, 0, "none")

\* scrape_main_api: the request raises (f = "request") or the loop runs
ApiCall(items, f) ==
    IF f = "request" THEN Result(<<>>, TRUE, FALSE, 0, "none")
    ELSE LET r == ApiLoop(items, <<>>, 0)
         IN  Result(r.out, FALSE, FALSE, r.inspected, "none")

\* main.py scrape_main_html: create_driver raises (drv stays None), the
\* page load or the wait raises (return [] with the driver made), or the
\* loop runs; the finally clause comes last on every way out
BrowserCall(items, f) ==
    IF f = "create" THEN Result(<<>>, FALSE, FALSE, 0, Finally("none"))
    ELSE IF f \in {"load", "wait"}
    THEN Result(<<>>, FALSE, FALSE, 0, Finally("open"))
    ELSE LET r == BrowserLoop(items, <<>>, 0)
         IN  Result(r.out, FALSE, FALSE, r.inspected, Finally("open"))

\* scrape_nr: the same without the wait; its except logs and out is returned
NrCall(items, f) ==
    IF f = "create" THEN Result(<<>>, FALSE, FALSE, 0, Finally("none"))
    ELSE IF f = "load" THEN Result(<<>>, FALSE, FALSE, 0, Finally("open"))
    ELSE LET r == NrLoop(items, <<>>, 0)
         IN  Result(r.out, FALSE, FALSE, r.inspected, Finally("open"))

\* html_scraper.py: _parse_html on the html that _fetch_html returned
StaticCall(items) ==
    LET r == _parse_html(items, <<>>, 0)
    IN  Result(r.out, FALSE, r.raised, r.inspected, "none")

\* The page is read only when nothing failed before the loop.
Given(items, f) == IF f = "none" THEN items ELSE <<>>

Returned(p, items, f, r) ==
    /\ xpc' = "done"
    /\ path' = p
    /\ rows' = Given(items, f)
    /\ fault' = f
    /\ outcome' = r

RunApi ==
    /\ UNCHANGED <<mvars, pvars>>
    /\ xpc = "idle"
    /\ \E items \in Inputs, f \in {"none", "request"} :
          Returned("api", items, f, ApiCall(Given(items, f), f))

RunBrowser ==
    /\ UNCHANGED <<mvars, pvars>>
    /\ xpc = "idle"
    /\ \E items \in Inputs, f \in {"none", "create", "load", "wait"} :
          Returned("browser", items, f, BrowserCall(Given(items, f), f))

RunNr ==
    /\ UNCHANGED <<mvars, pvars>>
    /\ xpc = "idle"
    /\ \E items \in Inputs, f \in {"none", "create", "load"} :
          Returned("nr", items, f, NrCall(Given(items, f), f))

RunStatic ==
    /\ UNCHANGED <<mvars, pvars>>
    /\ xpc = "idle"
    /\ \E items \in Inputs :
          Returned("static", items, "none", StaticCall(items))

\* the caller has taken the result; the function can be called again
Again ==
    /\ UNCHANGED <<mvars, pvars>>
    /\ xpc = "done"
    /\ xpc' = "idle"
    /\ path' = "none"
    /\ rows' = <<>>
    /\ fault' = "none"
    /\ outcome' = NoResult

XInit ==
    /\ xpc = "idle"
    /\ path = "none"
    /\ rows = <<>>
    /\ fault = "none"
    /\ outcome = NoResult

XNext == RunApi \/ RunBrowser \/ RunNr \/ RunStatic \/ Again

(* ============================ specifications ========================== *)
Init == MInit /\ PInit /\ XInit

\* main.py alone: it never touches the pool
Next == MNext
Spec == Init /\ [][Next]_vars

\* the pool and its callers alone
SpecPool == Init /\ [][PNext]_vars

\* One caller runs scrape_main_html of html_scraper.py while another bans
\* relays under it.
Fetching(t) ==
    \/ CallScrape(t) \/ FetchLoop(t) \/ FetchTry(t) \/ ScrapeReturn(t)
    \/ GetLock(t) \/ RefreshIfNeeded(t) \/ RefreshBegin(t) \/ RefreshEnd(t)
    \/ GetChoose(t) \/ GetUnlock(t)
    \/ BanLock(t) \/ BanAdd(t) \/ BanRemove(t)

Banning(t) ==
    \/ \E x \in Proxies : CallBan(t, x)
    \/ BanLock(t) \/ BanAdd(t) \/ BanRemove(t)

FetchNext == Tick \/ Fetching(1) \/ Banning(NumThreads)

SpecFetch == Init /\ [][FetchNext]_vars

(* Every step of a call that is under way is eventually taken: each network *)
(* call carries a timeout, and a thread that waits for the lock gets it,    *)
(* since every holder lets it go.                                           *)
Running(t) ==
    \/ RefreshIfNeeded(t) \/ RefreshBegin(t) \/ RefreshEnd(t)
    \/ GetChoose(t) \/ GetUnlock(t)
    \/ BanAdd(t) \/ BanRemove(t)
    \/ FetchLoop(t) \/ FetchTry(t) \/ ScrapeReturn(t)

FairFetch ==
    /\ SpecFetch
    /\ \A t \in Threads :
          WF_vars(Running(t)) /\ SF_vars(GetLock(t)) /\ SF_vars(BanLock(t))

\* the extraction functions alone, one call at a time
SpecExtract == Init /\ [][XNext]_vars

(* The loop never stops by itself: every step of the cycle that is enabled  *)
(* is eventually taken (each network call and each wait carries a timeout). *)
FairSpec == Spec /\ WF_vars(Cycle)

(* ============================ the claims ============================== *)
\* The identities that a send_telegram call of the cycle in progress has
\* delivered, and those for which every call so far has failed.
SentOk == {<<cyc[i][1], cyc[i][2]>> : i \in {j \in 1..Len(cyc) : cyc[j][3]}}
SentFailed ==
    {<<cyc[i][1], cyc[i][2]>> : i \in {j \in 1..Len(cyc) : ~cyc[j][3]}} \ SentOk

\* This step is a save that succeeded: monitor_cycle runs to its end.
SaveOk == pc = "deliver" /\ pc' = "sleep" /\ file'.status = "ok"
          /\ last_cycle' = "completed"

\* The list the file holds for a source.
Persisted(f, src) == IF src = "main" THEN Range(f.main) ELSE Range(f.nr)
Sent(src) == IF src = "main" THEN sent_main ELSE sent_nr
Fetched(src) == IF src = "main" THEN main_notices ELSE nr_notices

\* C1: no identity delivered in an earlier cycle is delivered again, as long
\* as the state file was not lost or corrupted and no cycle was cut short
\* (past is emptied by each of these).
C1_NeverDeliveredAgain ==
    \A n \in SentOk : n[2] \notin past[n[1]]

\* C2: a cycle that follows a cycle which fetched all that is listed, sent
\* all of it successfully and saved, with nothing changed in between, finds
\* nothing new and delivers nothing.
C2_Idempotent ==
    (steady /\ pc = "deliver") => (new = <<>> /\ cyc = <<>>)

\* This step is the filter of lines 330-331.
FindNew == pc = "scrape_nr" /\ pc' = "deliver"

\* C3: when a cycle saves, each notice it delivered is in the saved state and
\* each notice whose delivery failed is not; every new notice was attempted,
\* failed ones before it or not; and every notice whose delivery failed in
\* the cycle before and that is fetched again is among the new notices, which
\* are all attempted.
C3_PartialFailure ==
    [][/\ SaveOk =>
            /\ \A n \in SentOk : n[2] \in Persisted(file', n[1])
            /\ \A n \in SentFailed : n[2] \notin Persisted(file', n[1])
            /\ \A src \in Sources :
                  \A i \in Range(Fetched(src)) \ Persisted(load_state(file), src) :
                     <<src, i>> \in SentOk \cup SentFailed
       /\ FindNew =>
            \A n \in prev_failed :
               n[2] \in (IF n[1] = "main" THEN Range(main_notices)
                         ELSE Range(nr_notices')) => n \in Range(new')
      ]_vars

\* C4: whatever was loaded and delivered, the saved list of each source holds
\* at most SEEN_LIMIT identities.
C4_DedupBound ==
    file.status = "ok" => Len(file.main) <= SEEN_LIMIT /\ Len(file.nr) <= SEEN_LIMIT

\* C4 witness: a save has cut a set that had outgrown the limit.
C4_Witness ==
    pc = "sleep" /\ last_cycle = "completed" /\ file.status = "ok" /\ evicted > 0

\* C5: a save keeps exactly the SEEN_LIMIT identities inserted last, and with
\* them every identity delivered in this cycle.
C5_OldestFirst ==
    [][SaveOk =>
        /\ \A src \in Sources :
              Persisted(file', src) = Range(LastN(Sent(src), SEEN_LIMIT))
        /\ \A n \in SentOk : n[2] \in Persisted(file', n[1])
      ]_vars

\* C7: the API runs first; the browser runs if and only if the API call
\* failed (network error, timeout, unexpected status, missing structure) and
\* then its notices are returned; a successful API answer, empty or not,
\* never runs it.
ApiFailures == {"net_error", "timeout", "http_error", "bad_body", "no_content"}
C7_Fallback ==
    pc = "scrape_nr" =>
        /\ strategies # <<>> /\ strategies[1] = "api"
        /\ ("html" \in Range(strategies)) <=> (api_resp \in ApiFailures)
        /\ api_resp = "ok" => strategies = <<"api">>

\* C10: the loop never exits, and whatever the cycle in progress does (run to
\* its save, or raise from the load or from the save) a new cycle starts later.
C10_NeverFatal ==
    /\ [](pc # "exit")
    /\ (pc # "load") ~> (pc = "load")

\* C10 witness: the loop is back at its top after a cycle that crashed.
C10_Witness == pc = "load" /\ last_cycle = "crashed"

\* C11: a source whose pipeline failed has an empty candidate list; the cycle
\* goes on after the failure and ends only at its save; and a save that
\* succeeds leaves the failed source's saved identities as they were loaded,
\* with every new notice of the other source attempted.
C11_PipelineFailure ==
    /\ [](\A src \in failed : Fetched(src) = <<>>)
    /\ [](failed # {} => pc \in {"scrape_nr", "deliver"})
    /\ [][/\ (failed # {} /\ pc' = "sleep") => (pc = "deliver" /\ new = <<>>)
          /\ SaveOk =>
               /\ \A src \in failed :
                     Persisted(file', src) = Persisted(load_state(file), src)
               /\ \A src \in Sources \ failed :
                     \A i \in Range(Fetched(src)) \ Persisted(load_state(file), src) :
                        <<src, i>> \in SentOk \cup SentFailed
         ]_vars

\* C11 witness: the primary pipeline failed, the cycle has delivered a notice
\* of the secondary source and stands at its save with identities loaded for
\* the primary source.
C11_Witness ==
    /\ pc = "deliver" /\ new = <<>>
    /\ failed = {"main"} /\ sent_main # <<>>
    /\ \E i \in 1..Len(cyc) : cyc[i][1] = "nr" /\ cyc[i][3]

\* C14: a cycle that finds the state file absent, unreadable or corrupt (and
\* its directory in place) starts with both seen sets empty and goes on to
\* fetch.
C14_LoadNeverFails ==
    [][(pc = "load" /\ file.status # "ok" /\ pc' # "load"
        /\ last_cycle' # "no_dir")
       => (pc' = "scrape_main" /\ sent_main' = <<>> /\ sent_nr' = <<>>)]_vars

\* C20: no identity is delivered successfully twice in one cycle.
C20_OncePerCycle ==
    \A i, j \in 1..Len(cyc) :
       (i < j /\ cyc[i][3] /\ cyc[j][3])
       => <<cyc[i][1], cyc[i][2]>> # <<cyc[j][1], cyc[j][2]>>

\* A row carries a date, and a title that the function accepts.
Dated(r) == r.date \notin {NoDate, BadDate}
Titled(p, r) == IF p = "nr" THEN Len(Strip(r.title)) >= NR_MIN_TITLE
                ELSE Strip(r.title) # <<>>
\* The rows older than the lookback horizon.
OldRows == {i \in DOMAIN rows : Dated(rows[i]) /\ rows[i].date < Today - LOOKBACK_DAYS}
\* The j-th smallest element of a set of numbers.
Nth(S, j) == CHOOSE i \in S : Cardinality({m \in S : m < i}) = j - 1

\* C12: the API loop looks at the records in order up to the first one older
\* than the horizon and at none after it, and returns the notices of the
\* records before it (dated today, today-1, today-20: the first two).
C12_ApiStopsAtOld ==
    (xpc = "done" /\ path = "api" /\ fault = "none") =>
        LET stop == IF OldRows = {} THEN Len(rows) + 1 ELSE Nth(OldRows, 1)
            kept == {i \in 1..(stop - 1) : Dated(rows[i]) /\ Titled("api", rows[i])}
            out  == outcome.out
        IN  /\ outcome.inspected = Min(stop, Len(rows))
            /\ Len(out) = Cardinality(kept)
            /\ \A j \in 1..Len(out) :
                  /\ out[j].date = rows[Nth(kept, j)].date
                  /\ out[j].title = Strip(rows[Nth(kept, j)].title)

\* C12 witness: records dated today, today-1 and today-20 gave two notices.
C12_Witness ==
    /\ xpc = "done" /\ path = "api" /\ Len(rows) = 3
    /\ rows[1].date = Today /\ rows[2].date = Today - 1
    /\ rows[3].date = Today - 20
    /\ \A i \in 1..3 : Titled("api", rows[i])
    /\ Len(outcome.out) = 2
    /\ outcome.out[1].date = Today /\ outcome.out[2].date = Today - 1

SameSource(p) ==
    IF p = "nr" THEN Range(NrCall(rows, "none").out)
    ELSE Range(ApiCall(rows, "none").out)
         \cup Range(BrowserCall(rows, "none").out)
         \cup Range(StaticCall(rows).out)

\* C15: two notices of one source with the same date and the same first
\* TITLE_CUT characters of the title have the same identity, whichever
\* function made them.
C15_SameIdentity ==
    (xpc = "done" /\ fault = "none") =>
        \A n1 \in Range(outcome.out) : \A n2 \in SameSource(path) :
           (n1.date = n2.date
            /\ FirstN(n1.title, TITLE_CUT) = FirstN(n2.title, TITLE_CUT))
           => n1.id = n2.id

\* C15 witness: the browser and the API made notices with different titles
\* that share date and title prefix, and hence the identity.
C15_Witness ==
    /\ xpc = "done" /\ path = "browser" /\ fault = "none"
    /\ \E n1 \in Range(outcome.out) :
          \E n2 \in Range(ApiCall(rows, "none").out) :
             n1.title # n2.title /\ n1.date = n2.date /\ n1.id = n2.id

\* C19: when scrape_main_html or scrape_nr has returned, no browser session
\* is open: a session that was acquired has been quit, whether the function
\* ended in success, in a page-load or wait failure, or met rows that raise.
C19_SessionReleased ==
    xpc = "done" =>
        /\ outcome.drv # "open"
        /\ (path \in {"browser", "nr"} /\ fault # "create") => outcome.drv = "quit"

\* C19 witness: the wait timed out and the session was quit all the same.
C19_Witness ==
    xpc = "done" /\ path = "browser" /\ fault = "wait" /\ outcome.drv = "quit"

\* The pcs at which a thread is inside the with _lock block of get or ban.
Region == {"get_check", "refresh", "refresh_test", "get_choose", "get_unlock",
           "ban_add", "ban_remove"}

\* C16: a rebuild whose country-filtered feed named candidates has requested
\* no other feed.
C16_NarrowFirst ==
    (rebuild.done /\ rebuild.narrow) => ~rebuild.broad

\* The steps of get outside _refresh, for a thread.
GetSteps == {"get_check", "get_choose", "get_unlock"}

\* C17: get rebuilds exactly when _good is empty or the generation is older
\* than REFRESH_EVERY; the rebuild sets the timestamp to the present, empties
\* the banned set and makes the new list of nothing but candidates that passed
\* the check in it; a get that does not rebuild changes none of the three.
C17_RebuildWhenNeeded ==
    /\ [](rebuild.done => rebuild.scratch)
    /\ [][\A t \in Threads :
            /\ (tpc[t] = "get_check" /\ tpc'[t] # "get_check") =>
                  (tpc'[t] = "refresh"
                   <=> (good = <<>> \/ now - last_refresh > REFRESH_EVERY))
            /\ (tpc[t] = "refresh" /\ tpc'[t] # "refresh") =>
                  (last_refresh' = now /\ bad' = {})
            /\ (tpc[t] \in GetSteps /\ tpc'[t] # tpc[t] /\ tpc'[t] # "refresh") =>
                  (good' = good /\ bad' = bad /\ last_refresh' = last_refresh)
         ]_vars

\* C17 witness: a get on a pool that is neither empty nor expired is about to
\* return, with a proxy banned earlier in this generation still on record.
C17_Witness ==
    \E t \in Threads :
       /\ tpc[t] = "get_unlock" /\ ~rebuild.done
       /\ good # <<>> /\ bad # {} /\ last_refresh > 0

\* C18: the rotation takes at most MAX_TRIES turns, each begun from the top
\* of the loop; an attempt that succeeds ends it with the page, one that
\* fails hands the relay it used to ban, and the next turn begins only when
\* that relay is banned and out of the list; a get() that gives None and the
\* end of the turns end it with the logged empty result; and every rotation
\* that has begun returns.
C18_RotationTerminates ==
    /\ [](\A t \in Threads : tries[t] <= MAX_TRIES)
    /\ [][\A t \in Threads :
            /\ (tpc[t] = "fh_got" /\ ret[t] # 0 /\ tpc'[t] # "fh_got") =>
                  \/ tpc'[t] = "fh_ret" /\ res'[t] = "notices"
                  \/ tpc'[t] = "ban_lock" /\ arg'[t] = ret[t]
            /\ (tpc[t] = "fh_got" /\ ret[t] = 0 /\ tpc'[t] # "fh_got") =>
                  (tpc'[t] = "fh_ret" /\ res'[t] = "empty_logged")
            /\ (tpc[t] = "fh_loop" /\ tries[t] = MAX_TRIES /\ tpc'[t] # "fh_loop") =>
                  (tpc'[t] = "fh_ret" /\ res'[t] = "empty_logged")
            /\ (caller[t] = "fetch" /\ tpc[t] # "get_lock" /\ tpc'[t] = "get_lock") =>
                  (tpc[t] = "fh_loop" /\ tries'[t] = tries[t] + 1)
            /\ (tpc[t] \notin {"idle", "fh_loop"} /\ tpc'[t] = "fh_loop") =>
                  (/\ tpc[t] = "ban_remove"
                   /\ arg[t] \in bad'
                   /\ arg[t] \notin Range(good'))
         ]_vars
    /\ \A t \in Threads : (tpc[t] = "fh_loop") ~> (tpc[t] = "fh_ret")

\* C18 witness: a rotation has used up its turns, the last relay banned, and
\* returns the empty result.
C18_Witness ==
    \E t \in Threads :
       /\ tpc[t] = "fh_ret" /\ res[t] = "empty_logged"
       /\ tries[t] = MAX_TRIES /\ after_ban[t] # 0

\* The addresses some thread has put into _bad and not yet taken out of _good:
\* ban between its lines 123 and 124.
BeingBanned == {arg[t] : t \in {u \in Threads : tpc[u] = "ban_remove"}}

\* C21: _good holds no address twice; _good and _bad share no address, but
\* for the one a ban is in the middle of removing; what get is about to return
\* is None when _good is empty and otherwise a member of _good that is not in
\* _bad; and _good is only ever replaced by a rebuild, with candidates that
\* passed the check in it and an emptied _bad, or shortened by a ban, which
\* takes out the address it has put into _bad, so that every member passed
\* the check in the present generation and was not banned since.
C21_VerifiedNotBanned ==
    /\ [](/\ \A i, j \in 1..Len(good) : i # j => good[i] # good[j]
          /\ Range(good) \cap bad \subseteq BeingBanned
          /\ \A t \in Threads :
                tpc[t] = "get_unlock" =>
                   IF good = <<>> THEN ret[t] = 0
                   ELSE ret[t] \in Range(good) \ bad)
    /\ [][
           /\ good' # good =>
               \E t \in Threads :
                  \/ /\ tpc[t] = "refresh_test" /\ tpc'[t] = "get_choose"
                     /\ rebuild'.done /\ rebuild'.scratch
                     /\ bad = {} /\ bad' = {}
                  \/ /\ tpc[t] = "ban_remove" /\ tpc'[t] # "ban_remove"
                     /\ arg[t] \in bad'
                     /\ Range(good') = Range(good) \ {arg[t]}
           /\ bad' # bad =>
               \E t \in Threads :
                  \/ tpc[t] = "refresh" /\ tpc'[t] = "refresh_test" /\ bad' = {}
                  \/ tpc[t] = "ban_add" /\ bad' = bad \cup {arg[t]}
         ]_vars

\* C21 witness: get is about to return an address from a list of two, while an
\* address that was banned in this generation is on record.
C21_Witness ==
    \E t \in Threads :
       /\ tpc[t] = "get_unlock" /\ ret[t] # 0
       /\ Len(good) = MAX_GOOD /\ bad # {}

\* C6: a get() that follows the caller's ban(x), with no rebuild since the
\* ban, does not return x.
C6_BanThenGet ==
    \A t \in Threads :
       (tpc[t] = "get_unlock" /\ after_ban[t] # 0) => ret[t] # after_ban[t]

\* C6 witness: in the generation of its ban, a caller is handed another proxy.
C6_Witness ==
    \E t \in Threads : tpc[t] = "get_unlock" /\ after_ban[t] # 0 /\ ret[t] # 0

\* C8: a get() whose rebuild found no candidate that passes the check returns
\* None and leaves _good empty; and _fetch_html, handed None, makes no request
\* at all: scrape_main_html logs the failure and returns [].
C8_EmptyPool ==
    /\ [](\A t \in Threads :
            (tpc[t] = "get_unlock" /\ rebuilt_empty[t]) =>
                (ret[t] = 0 /\ good = <<>>))
    /\ [][\A t \in Threads :
            (tpc[t] = "fh_got" /\ ret[t] = 0 /\ tpc'[t] # "fh_got") =>
                (tpc'[t] = "fh_ret" /\ res'[t] = "empty_logged")]_vars

\* C8 witness: scrape_main_html returns [] because get() gave None, with turns
\* of the loop still left.
C8_Witness ==
    \E t \in Threads :
       /\ tpc[t] = "fh_ret" /\ res[t] = "empty_logged"
       /\ tries[t] < MAX_TRIES /\ good = <<>>

\* C9: whoever is inside get's or ban's block holds the lock, so at most one
\* thread is; and _good, _bad and _last_refresh change only in a step of the
\* thread that holds the lock.
C9_UnderLock ==
    /\ [](/\ \A t \in Threads : tpc[t] \in Region => lock = t
          /\ Cardinality({t \in Threads : tpc[t] \in Region}) <= 1)
    /\ [][(good' # good \/ bad' # bad \/ last_refresh' # last_refresh) =>
            (/\ lock # 0
             /\ tpc[lock] \in Region
             /\ tpc'[lock] # tpc[lock]
             /\ \A u \in Threads \ {lock} : tpc'[u] = tpc[u])]_vars

\* C9 witness: one thread changes the pool while another waits for the lock.
C9_Witness ==
    \E t, u \in Threads :
       /\ t # u
       /\ tpc[t] \in {"refresh_test", "ban_remove"}
       /\ tpc[u] \in {"get_lock", "ban_lock"}
====
